---- MODULE Spec2Model ----
(***************************************************************************)
(* The asynchronous document-indexing pipeline of cygnus                   *)
(* (src/src/cygnus/indexer.py): the Document ledger rows, the ChromaDB     *)
(* collection, and the executors of process_pending_documents: the main    *)
(* loop of worker.py and the IndexWorker threads started by start().       *)
(*                                                                         *)
(* ORM state.  db_session is a scoped_session (indexer.py:123), so every   *)
(* self.db_session() made by one thread returns the SAME Session.  The     *)
(* Session used by process_pending_documents (217) is therefore the one    *)
(* _index_document commits (332), rolls back (337) and closes (340), and   *)
(* the one _handle_indexing_error commits (495).  The model keeps, per     *)
(* executor, whether the Document objects of its batch are still attached  *)
(* to that Session (inSession) and which of them hold loaded attribute     *)
(* values (loaded): commit and rollback expire the attached objects,       *)
(* close() detaches them, a commit flushes attached objects only, and      *)
(* reading an attribute of an expired detached object raises               *)
(* DetachedInstanceError.                                                  *)
(*                                                                         *)
(* Shutdown.  worker.py installs signal_handler, which calls stop() and    *)
(* then sys.exit(0) on the main thread; the threads are daemon threads.    *)
(*                                                                         *)
(* _chunk_text is a function of the text and of config.indexing; it is     *)
(* written out character by character and also checked on its own, over    *)
(* all bounded texts, in SpecChunker.                                      *)
(***************************************************************************)
EXTENDS Integers, Sequences, FiniteSets, TLC

\* ---------------------------------------------------------------- bounds
NumDocs == 2
\* Texts and chunk sizes handed to _chunk_text on its own.
MaxTextLen == 6
MaxChunkSize == 3
\* Largest n_results asked of search().
MaxResults == 2
\* Threads that call get_indexer() in a process that has no instance yet.
NumCallers == 3
\* Calls of start() made on one DocumentIndexer.
MaxStarts == 2
\* Rows of the files table of the legacy processor, AsyncIOScheduler
\* objects it creates, and minutes its clock runs.
NumFiles == 2
MaxSchedulers == 2
MaxClock == 20

\* ------------------------------------------------------ program constants
\* config.indexing.num_workers of the two configurations checked.
NoWorkers == 0
OneWorker == 1
TwoWorkers == 2
MaxRetries == 3
BatchLimit == 10
ErrorColumnLen == 1000
\* time.sleep(10) after a scan, time.sleep(30) in the except branch of
\* _worker_loop.
ScanInterval == 10
ErrorInterval == 30
\* src/cygnus/scheduler.py: start(interval_minutes=5), timedelta(minutes=15).
IntervalMinutes == 5
CutoffMinutes == 15

Docs == 1..NumDocs
\* Executor 0 is the main loop of worker.py; 1..num_workers are the threads.
MainLoop == 0

PENDING == "pending"
PROCESSING == "processing"
COMPLETED == "completed"
FAILED == "failed"
IndexingStatus == {PENDING, PROCESSING, COMPLETED, FAILED}

\* A NULL column value; error_message otherwise holds the stored length.
NULL == -1
\* Lengths of the str(e) messages an indexing failure can carry.
ErrorLengths == {40, 1001}

VARIABLES
    ledger,           \* documents table: Docs -> row
    collection,       \* ChromaDB collection: set of entries
    pc,               \* position of each executor
    pending_docs,     \* the batch an executor selected
    pos,              \* index of the current doc in the batch
    inSession,        \* batch objects attached to the executor's Session
    loaded,           \* batch objects whose attributes are loaded
    failed_attempts,  \* history: failed attempts since the last success
    stop_event,       \* DocumentIndexer.stop_event
    shutdown,         \* the pool: running, in stop() joining, process gone, idle
    interval,         \* seconds of the time.sleep an executor last entered
    scan_error,       \* history: the last scan ended in its outer handler
    config,           \* config.indexing: chunk_size, chunk_overlap, strategy
    text,             \* argument of a call of _chunk_text on its own
    chunks,           \* the list that call returned
    chunker_pc,       \* position of that call
    api,              \* the last search() or get_stats() call and its outcome
    indexer_instance, \* module global _indexer_instance
    indexer_lock,     \* holder of _indexer_lock, or NULL
    caller_pc,        \* position of each thread calling get_indexer()
    returned,         \* what get_indexer() returned to each thread
    constructor_runs, \* history: calls of DocumentIndexer(config_path)
    scheduler,        \* DocumentProcessor.scheduler: NULL or a scheduler
    schedulers,       \* every AsyncIOScheduler created so far: its state
    last_call,        \* history: the last call made on the DocumentProcessor
    files,            \* files table of the legacy processor
    legacy_scan,      \* the run of the legacy process_pending_documents job
    clock             \* datetime.utcnow() in minutes

vars == <<ledger, collection, pc, pending_docs, pos, inSession, loaded,
          failed_attempts, stop_event, shutdown, interval, scan_error,
          config, text, chunks, chunker_pc, api, indexer_instance,
          indexer_lock, caller_pc, returned, constructor_runs,
          scheduler, schedulers, last_call, files, legacy_scan, clock>>

\* What no step of the pipeline writes.
chunker_vars == <<config, text, chunks, chunker_pc>>

\* get_indexer() and its callers.
singleton_vars == <<indexer_instance, indexer_lock, caller_pc, returned,
                    constructor_runs>>

\* The legacy processor of src/cygnus/scheduler.py.
legacy_vars == <<scheduler, schedulers, last_call, files, legacy_scan, clock>>

\* What no step of an executor writes.
outside_vars == <<chunker_vars, api, singleton_vars, legacy_vars>>

\* The executors of process_pending_documents that main() set running.
Executors == DOMAIN pc

\* Column defaults of a Document row created by the upload endpoint.
NewDocument == [status |-> PENDING, indexed_date |-> NULL, chunk_count |-> 0,
                error_message |-> NULL, retry_count |-> 0]

Now == 1

\* The executors after start() with num_workers threads, every uploaded
\* document still pending.
Launched(num_workers) ==
    /\ ledger = [d \in Docs |-> NewDocument]
    /\ collection = {}
    /\ pc = [e \in MainLoop..num_workers |-> "sleep"]
    /\ pending_docs = [e \in MainLoop..num_workers |-> <<>>]
    /\ pos = [e \in MainLoop..num_workers |-> 0]
    /\ inSession = [e \in MainLoop..num_workers |-> FALSE]
    /\ loaded = [e \in MainLoop..num_workers |-> {}]
    /\ failed_attempts = [d \in Docs |-> 0]
    /\ stop_event = FALSE
    /\ shutdown = "running"
    /\ interval = [e \in MainLoop..num_workers |-> 0]
    /\ scan_error = [e \in MainLoop..num_workers |-> FALSE]

\* main() has made the one call of get_indexer() of the worker process; no
\* thread is inside get_indexer().
Constructed ==
    /\ indexer_instance = 1
    /\ indexer_lock = NULL
    /\ caller_pc = <<>>
    /\ returned = <<>>
    /\ constructor_runs = 1

Files == 1..NumFiles

\* A file row as the upload leaves it.
NewFile ==
    [processing_status |-> PENDING, last_processing_attempt |-> NULL,
     processing_error |-> NULL]

\* No run of the legacy job is in progress.  While idle the record keeps,
\* as history, the list the latest run selected and the position at which
\* that run ended: past the list when the loop ran through.
NoScan == [pc |-> "idle", pending_files |-> <<>>, pos |-> 1, selected |-> {}]

\* `processor = DocumentProcessor()`: no scheduler yet, every uploaded file
\* pending.
ProcessorCreated ==
    /\ scheduler = NULL
    /\ schedulers = <<>>
    /\ last_call = "none"
    /\ files = [f \in Files |-> NewFile]
    /\ legacy_scan = NoScan
    /\ clock = 0

\* The worker process after get_indexer() and start(); nobody has called
\* search() or get_stats(), and the legacy processor is not in use.
Started(num_workers) ==
    /\ Launched(num_workers)
    /\ Constructed
    /\ api = [op |-> "none"]
    /\ ProcessorCreated

\* load_config() accepts any values; no call of _chunk_text is in progress
\* outside _index_document.
Loaded(cfg) ==
    /\ config = cfg
    /\ text = <<>>
    /\ chunks = <<>>
    /\ chunker_pc = "idle"

\* The configuration of the pipeline runs, scaled down: one character per
\* chunk, no overlap.
ValidConfig ==
    [chunk_size |-> 1, chunk_overlap |-> 0, chunking_strategy |-> "fixed"]

Init == Started(OneWorker) /\ Loaded(ValidConfig)

InitPool == Started(TwoWorkers) /\ Loaded(ValidConfig)

\* num_workers = 0: the main loop of worker.py is the only executor.
InitSolo == Started(NoWorkers) /\ Loaded(ValidConfig)

Min(a, b) == IF a < b THEN a ELSE b

\* The document the executor's for-loop is at.
CurrentDoc(e) == pending_docs[e][pos[e]]

\* ------------------------------------------------------------ ORM session
\* session.commit(): an UPDATE is flushed for a dirty object only while the
\* object is attached to the Session; a detached object is not written.
SessionCommit(attached, d, row) ==
    IF attached THEN [ledger EXCEPT ![d] = row] ELSE ledger

\* commit() (expire_on_commit) and rollback() expire every attached object;
\* detached objects keep whatever they hold.
Expired(attached, objs) == IF attached THEN {} ELSE objs

\* Reading an attribute: a loaded value is returned, an expired attached
\* object is refreshed from its row, an expired detached object raises.
AttributeReadable(e, d) == d \in loaded[e] \/ inSession[e]

\* ---------------------------------------------------------------- _chunk_text
\* A text is a sequence of characters; str.strip() and \\s take the blank and
\* the newline as whitespace, the regular expression takes . ! ? as the end
\* of a sentence.
Newline == "\n"
Whitespace == {" ", Newline}
SentenceEnd == {".", "!", "?"}

Blank(s) == \A i \in 1..Len(s) : s[i] \in Whitespace

\* s.strip()
Strip(s) ==
    IF Blank(s) THEN <<>>
    ELSE LET nonws == {i \in 1..Len(s) : s[i] \notin Whitespace}
             first == CHOOSE i \in nonws : \A j \in nonws : i <= j
             last == CHOOSE i \in nonws : \A j \in nonws : j <= i
         IN  SubSeq(s, first, last)

\* s[i:j] with 0 <= i <= j
Slice(s, i, j) == SubSeq(s, i + 1, Min(j, Len(s)))

\* s[-k:] with k > 0
Tail_(s, k) == IF k >= Len(s) THEN s ELSE SubSeq(s, Len(s) - k + 1, Len(s))

\* text.split('\n\n'): cut at the leftmost double newline, then go on in
\* the rest.
RECURSIVE SplitParagraphs(_)
SplitParagraphs(s) ==
    LET cuts == {i \in 1..(Len(s) - 1) : s[i] = Newline /\ s[i + 1] = Newline}
    IN  IF cuts = {} THEN <<s>>
        ELSE LET i == CHOOSE c \in cuts : \A c2 \in cuts : c <= c2
             IN  <<SubSeq(s, 1, i - 1)>>
                     \o SplitParagraphs(SubSeq(s, i + 2, Len(s)))

\* re.split(r'(?<=[.!?])\s+', s): cut out the leftmost run of whitespace
\* that follows the end of a sentence, then go on in the rest.
RECURSIVE SplitSentences(_)
SplitSentences(s) ==
    LET cuts == {i \in 2..Len(s) :
                    s[i] \in Whitespace /\ s[i - 1] \in SentenceEnd}
    IN  IF cuts = {} THEN <<s>>
        ELSE LET i == CHOOSE c \in cuts : \A c2 \in cuts : c <= c2
                 after == {j \in i..Len(s) : s[j] \notin Whitespace}
                 j == IF after = {} THEN Len(s) + 1
                      ELSE CHOOSE c \in after : \A c2 \in after : c <= c2
             IN  <<SubSeq(s, 1, i - 1)>>
                     \o SplitSentences(SubSeq(s, j, Len(s)))

\* `chunks = []` and `current_chunk = ""`.  Beside the two variables of the
\* code the loop state keeps history: untouched tells that current_chunk is
\* a seed to which nothing was added yet, seed_only tells for each flushed
\* chunk whether it was flushed in that condition.
EmptyBuffer ==
    [chunks |-> <<>>, current_chunk |-> <<>>,
     seed_only |-> <<>>, untouched |-> FALSE]

\* `if current_chunk: chunks.append(current_chunk.strip())` and the seed of
\* the next chunk, on the loop state st.
Flush(st, overlap) ==
    IF st.current_chunk = <<>> THEN st
    ELSE [chunks |-> Append(st.chunks, Strip(st.current_chunk)),
          current_chunk |-> IF overlap > 0
                            THEN Tail_(st.current_chunk, overlap) ELSE <<>>,
          seed_only |-> Append(st.seed_only, st.untouched),
          untouched |-> overlap > 0]

\* One turn of `for sentence in sentences`.
AddSentence(st, sentence, chunk_size, overlap) ==
    LET st1 == IF Len(st.current_chunk) + Len(sentence) > chunk_size
               THEN Flush(st, overlap) ELSE st
    IN  [st1 EXCEPT !.current_chunk = @ \o <<" ">> \o sentence,
                    !.untouched = FALSE]

RECURSIVE AddSentences(_, _, _, _)
AddSentences(st, sentences, chunk_size, overlap) ==
    IF sentences = <<>> THEN st
    ELSE AddSentences(AddSentence(st, Head(sentences), chunk_size, overlap),
                      Tail(sentences), chunk_size, overlap)

\* One turn of `for para in paragraphs`.
AddParagraph(st, paragraph, chunk_size, overlap) ==
    LET para == Strip(paragraph)
    IN  IF para = <<>> THEN st
        ELSE IF Len(st.current_chunk) + Len(para) > chunk_size
        THEN LET st1 == Flush(st, overlap)
             IN  IF Len(para) > chunk_size
                 THEN AddSentences(st1, SplitSentences(para),
                                   chunk_size, overlap)
                 ELSE [st1 EXCEPT !.current_chunk = @ \o <<" ">> \o para,
                                  !.untouched = FALSE]
        ELSE IF st.current_chunk # <<>>
        THEN [st EXCEPT !.current_chunk = @ \o <<Newline, Newline>> \o para,
                        !.untouched = FALSE]
        ELSE [st EXCEPT !.current_chunk = para, !.untouched = FALSE]

RECURSIVE AddParagraphs(_, _, _, _)
AddParagraphs(st, paragraphs, chunk_size, overlap) ==
    IF paragraphs = <<>> THEN st
    ELSE AddParagraphs(AddParagraph(st, Head(paragraphs), chunk_size, overlap),
                       Tail(paragraphs), chunk_size, overlap)

\* The semantic branch, with the remaining chunk added at the end.
SemanticChunks(s, chunk_size, overlap) ==
    LET st == AddParagraphs(EmptyBuffer, SplitParagraphs(s),
                            chunk_size, overlap)
    IN  IF Strip(st.current_chunk) # <<>>
        THEN Append(st.chunks, Strip(st.current_chunk)) ELSE st.chunks

\* Variant that keeps every window.
AnyWindow(chunk) == TRUE

\* `if chunk.strip():`
NonBlankWindow(chunk) == Strip(chunk) # <<>>

\* Variant whose windows do not overlap.
StepWithoutOverlap(chunk_size, overlap) == chunk_size

\* The step of range(0, len(text), chunk_size - overlap).
WindowStep(chunk_size, overlap) == chunk_size - overlap

\* The fixed branch from offset i on, for a positive step.
RECURSIVE FixedFrom(_, _, _, _)
FixedFrom(s, i, chunk_size, step) ==
    IF i >= Len(s) THEN <<>>
    ELSE LET chunk == Slice(s, i, i + chunk_size)
         IN  (IF NonBlankWindow(chunk) THEN <<Strip(chunk)>> ELSE <<>>)
                 \o FixedFrom(s, i + step, chunk_size, step)

\* _chunk_text under configuration cfg: the list returned, or the
\* ValueError of range() for a step of 0; a negative step gives an empty
\* range.
ChunkText(s, cfg) ==
    LET step == WindowStep(cfg.chunk_size, cfg.chunk_overlap)
    IN  IF cfg.chunking_strategy = "semantic"
        THEN [raised |-> FALSE,
              chunks |-> SemanticChunks(s, cfg.chunk_size, cfg.chunk_overlap)]
        ELSE IF step = 0 THEN [raised |-> TRUE, chunks |-> <<>>]
        ELSE IF step < 0 THEN [raised |-> FALSE, chunks |-> <<>>]
        ELSE [raised |-> FALSE,
              chunks |-> FixedFrom(s, 0, cfg.chunk_size, step)]

\* ------------------------------------------------- process_pending_documents
PendingRows == {d \in Docs : ledger[d].status = PENDING}

\* .limit(10).all() without ORDER BY: any ordering of up to 10 pending rows.
Batches(S) ==
    LET n == Min(Cardinality(S), BatchLimit)
    IN  {b \in [1..n -> S] : \A i, j \in 1..n : i # j => b[i] # b[j]}

Range(b) == {b[i] : i \in DOMAIN b}

\* Executor e can take a step: the process lives, and the main thread is
\* not inside signal_handler.
Running(e) ==
    IF e = MainLoop THEN shutdown = "running" ELSE shutdown # "exited"

\* Variant of the loop condition that never reads the stop event.
StopIgnored(e) == TRUE

\* `while not self.stop_event.is_set()` of _worker_loop; the loop of main()
\* is `while True`.
LoopCondition(e) == e = MainLoop \/ ~stop_event

\* The loop test after start() or after a sleep: the executor calls
\* process_pending_documents or, for a thread, leaves its loop.
LoopTest(e) ==
    /\ Running(e)
    /\ pc[e] = "sleep"
    /\ pc' = [pc EXCEPT ![e] = IF LoopCondition(e) THEN "scan" ELSE "stopped"]
    /\ UNCHANGED <<ledger, collection, pending_docs, pos, inSession, loaded,
                   failed_attempts, stop_event, shutdown, interval,
                   scan_error, outside_vars>>

\* The query of one scan, with at least one pending row.
Scan(e) ==
    /\ Running(e)
    /\ pc[e] = "scan"
    /\ PendingRows # {}
    /\ \E b \in Batches(PendingRows) :
          /\ pending_docs' = [pending_docs EXCEPT ![e] = b]
          /\ loaded' = [loaded EXCEPT ![e] = Range(b)]
    /\ pos' = [pos EXCEPT ![e] = 1]
    /\ inSession' = [inSession EXCEPT ![e] = TRUE]
    /\ pc' = [pc EXCEPT ![e] = "claim"]
    /\ scan_error' = [scan_error EXCEPT ![e] = FALSE]
    /\ UNCHANGED <<ledger, collection, failed_attempts, stop_event, shutdown,
                   interval, outside_vars>>

\* doc.status = PROCESSING; session.commit()
ClaimedRow(row) == [row EXCEPT !.status = PROCESSING]

Claim(e) ==
    /\ Running(e)
    /\ pc[e] = "claim"
    /\ LET d == CurrentDoc(e)
       IN  ledger' = SessionCommit(inSession[e], d, ClaimedRow(ledger[d]))
    /\ loaded' = [loaded EXCEPT ![e] = Expired(inSession[e], @)]
    /\ pc' = [pc EXCEPT ![e] = "index"]
    /\ UNCHANGED <<collection, pending_docs, pos, inSession, failed_attempts,
                   stop_event, shutdown, interval, scan_error,
                   outside_vars>>

\* ----------------------------------------------------------- _index_document
\* Variant without the empty-result checks.
ChunksCreatedUnchecked(n) == n >= 0

\* `if not chunks: raise ValueError` (and the blank-text check before it).
ChunksCreated(n) == n > 0

\* Any step up to the embedding raises: doc.node_id on an expired detached
\* object, a missing node or file, the extractor, blank text, the embedder.
IndexRaises(e) ==
    /\ Running(e)
    /\ pc[e] = "index"
    /\ loaded' = [loaded EXCEPT ![e] =
                     IF inSession[e] THEN @ \cup {CurrentDoc(e)} ELSE @]
    /\ pc' = [pc EXCEPT ![e] = "except"]
    /\ UNCHANGED <<ledger, collection, pending_docs, pos, inSession,
                   failed_attempts, stop_event, shutdown, interval, scan_error,
                   outside_vars>>

\* self._extract_text(file_path) for the stored file of document d: the
\* file of document 1 holds blank text, that of document d > 1 holds d - 1
\* letters.
TextOf(d) == IF d = 1 THEN <<" ">> ELSE [i \in 1..(d - 1) |-> "a"]

\* len(self._chunk_text(text)) for document d; with ValidConfig that is
\* d - 1 chunks.  A raising _chunk_text leaves no chunks either.
ChunksOf(d) == Len(ChunkText(TextOf(d), config).chunks)

\* Extraction, chunking and embedding go through; a blank text or an empty
\* chunk list raises ValueError.
IndexChunks(e) ==
    /\ Running(e)
    /\ pc[e] = "index"
    /\ AttributeReadable(e, CurrentDoc(e))
    /\ loaded' = [loaded EXCEPT ![e] =
                     IF inSession[e] THEN @ \cup {CurrentDoc(e)} ELSE @]
    /\ pc' = [pc EXCEPT ![e] =
                 IF ChunksCreated(ChunksOf(CurrentDoc(e)))
                 THEN "add" ELSE "except"]
    /\ UNCHANGED <<ledger, collection, pending_docs, pos, inSession,
                   failed_attempts, stop_event, shutdown, interval, scan_error,
                   outside_vars>>

\* Variant whose chunk numbering starts at one.
NewEntriesFromOne(d, n) ==
    {[document_id |-> d, chunk_index |-> i, total_chunks |-> n] :
        i \in 1..n}

\* ids and metadatas prepared for collection.add
NewEntries(d, n) ==
    {[document_id |-> d, chunk_index |-> i, total_chunks |-> n] :
        i \in 0..(n - 1)}

HasId(d, i) ==
    \E x \in collection : x.document_id = d /\ x.chunk_index = i

\* The entries the collection holds for document d.
EntriesOf(d) == {x \in collection : x.document_id = d}

\* Variant whose ids are numbered on from the entries already stored.
CollectionAfterAddAppended(d, n) ==
    collection \cup
        {[document_id |-> d, chunk_index |-> i + Cardinality(EntriesOf(d)),
          total_chunks |-> n] : i \in 0..(n - 1)}

\* collection.add keeps the entry an id already has.
CollectionAfterAdd(d, n) ==
    collection \cup {x \in NewEntries(d, n) : ~HasId(d, x.chunk_index)}

CollectionAdd(e) ==
    /\ Running(e)
    /\ pc[e] = "add"
    /\ collection' = CollectionAfterAdd(CurrentDoc(e), ChunksOf(CurrentDoc(e)))
    /\ pc' = [pc EXCEPT ![e] = "commit"]
    /\ UNCHANGED <<ledger, pending_docs, pos, inSession, loaded,
                   failed_attempts, stop_event, shutdown, interval, scan_error,
                   outside_vars>>

CollectionAddRaises(e) ==
    /\ Running(e)
    /\ pc[e] = "add"
    /\ pc' = [pc EXCEPT ![e] = "except"]
    /\ UNCHANGED <<ledger, collection, pending_docs, pos, inSession, loaded,
                   failed_attempts, stop_event, shutdown, interval, scan_error,
                   outside_vars>>

\* The for-loop goes on to the next document of the batch.
NextIteration(e) ==
    /\ pos' = [pos EXCEPT ![e] = @ + 1]
    /\ pc' = [pc EXCEPT ![e] = "claim"]
    /\ UNCHANGED <<pending_docs, interval>>

\* The for-loop is left and the executor continues at `where`.
ReturnTo(e, where) ==
    /\ pos' = [pos EXCEPT ![e] = 0]
    /\ pc' = [pc EXCEPT ![e] = where]
    /\ pending_docs' = [pending_docs EXCEPT ![e] = <<>>]
    /\ interval' = [interval EXCEPT ![e] = ScanInterval]

\* process_pending_documents returns (finally: session.close()) and its
\* caller goes to time.sleep(10).
ReturnFromScan(e) == ReturnTo(e, "sleep")

\* Variant in which the exception leaves the method and ends the thread.
Propagated(e) == "stopped"

\* `except Exception` at the end of process_pending_documents: the error
\* is logged and the method returns as after a scan without error.
Caught(e) == "sleep"

\* `if not pending_docs: return`
ScanNothing(e) ==
    /\ Running(e)
    /\ pc[e] = "scan"
    /\ PendingRows = {}
    /\ scan_error' = [scan_error EXCEPT ![e] = FALSE]
    /\ ReturnFromScan(e)
    /\ UNCHANGED <<ledger, collection, inSession, loaded, failed_attempts,
                   stop_event, shutdown, outside_vars>>

\* The query raises: the outer `except Exception` of
\* process_pending_documents logs the error and the method returns normally.
ScanRaises(e) ==
    /\ Running(e)
    /\ pc[e] = "scan"
    /\ scan_error' = [scan_error EXCEPT ![e] = TRUE]
    /\ ReturnTo(e, Caught(e))
    /\ UNCHANGED <<ledger, collection, inSession, loaded, failed_attempts,
                   stop_event, shutdown, outside_vars>>

LoopEnd(e) ==
    IF pos[e] < Len(pending_docs[e]) THEN NextIteration(e) ELSE ReturnFromScan(e)

\* doc.status = COMPLETED ... session.commit()
CompletedRow(row, n) ==
    [row EXCEPT !.status = COMPLETED, !.indexed_date = Now,
                !.chunk_count = n, !.error_message = NULL]

\* The ledger update of a successful run, the refresh for the log line, the
\* close() in finally, the log line of the caller and the loop step.
MarkCompleted(e) ==
    /\ Running(e)
    /\ pc[e] = "commit"
    /\ LET d == CurrentDoc(e)
       IN  /\ ledger' = SessionCommit(inSession[e], d,
                                      CompletedRow(ledger[d], ChunksOf(d)))
           /\ loaded' = [loaded EXCEPT ![e] =
                            IF inSession[e] THEN {d} ELSE @]
           /\ failed_attempts' = [failed_attempts EXCEPT ![d] = 0]
    /\ inSession' = [inSession EXCEPT ![e] = FALSE]
    /\ LoopEnd(e)
    /\ UNCHANGED <<collection, stop_event, shutdown, scan_error, outside_vars>>

\* session.commit() of the ledger update raises: the chunks stay in the
\* collection and the attempt goes to the except path.
CommitRaises(e) ==
    /\ Running(e)
    /\ pc[e] = "commit"
    /\ pc' = [pc EXCEPT ![e] = "except"]
    /\ UNCHANGED <<ledger, collection, pending_docs, pos, inSession, loaded,
                   failed_attempts, stop_event, shutdown, interval, scan_error,
                   outside_vars>>

\* ------------------------------------------------------ _handle_indexing_error
\* error_message[:1000]
Truncate(len) == Min(len, ErrorColumnLen)

\* The retry rule applied to the Document object.
HandleIndexingError(row, len) ==
    LET rc == row.retry_count + 1
    IN  [row EXCEPT !.retry_count = rc,
                    !.error_message = Truncate(len),
                    !.status = IF rc < MaxRetries THEN PENDING ELSE FAILED]

\* Variant in which _index_document leaves the caller's Session alone.
SessionLeftOpen(e) ==
    [inSession |-> inSession[e], loaded |-> loaded[e]]

\* `except: session.rollback() ... finally: session.close()` of
\* _index_document: the batch objects are expired, then detached.
AfterRollbackClose(e) ==
    [inSession |-> FALSE, loaded |-> Expired(inSession[e], loaded[e])]

\* The except path of one document: rollback and close in _index_document,
\* then the handler of process_pending_documents, whose log line reads
\* doc.id before _handle_indexing_error is called.  When that read raises,
\* the exception leaves the for-loop and is caught by the outer handler.
\* Otherwise _handle_indexing_error updates the object, starting from the
\* column values it holds, and commits and closes the same Session.
IndexingError(e) ==
    /\ Running(e)
    /\ pc[e] = "except"
    /\ LET d == CurrentDoc(e)
           s == AfterRollbackClose(e)
       IN  /\ failed_attempts' = [failed_attempts EXCEPT ![d] = @ + 1]
           /\ inSession' = [inSession EXCEPT ![e] = FALSE]
           /\ IF d \in s.loaded
              THEN /\ \E len \in ErrorLengths :
                         ledger' = SessionCommit(s.inSession, d,
                                       HandleIndexingError(ledger[d], len))
                   /\ loaded' = [loaded EXCEPT ![e] =
                                    Expired(s.inSession, s.loaded)]
                   /\ scan_error' = scan_error
                   /\ LoopEnd(e)
              ELSE /\ ledger' = ledger
                   /\ loaded' = [loaded EXCEPT ![e] = {}]
                   /\ scan_error' = [scan_error EXCEPT ![e] = TRUE]
                   /\ ReturnTo(e, Caught(e))
    /\ UNCHANGED <<collection, stop_event, shutdown, outside_vars>>

\* ------------------------------------------------------------ worker.py
\* The IndexWorker threads.
Workers == Executors \ {MainLoop}

\* SIGTERM or SIGINT: signal_handler runs on the main thread, whatever the
\* main loop was doing, and calls stop(), which sets the stop event and
\* starts joining the threads.
SignalHandler ==
    /\ shutdown = "running"
    /\ stop_event' = TRUE
    /\ shutdown' = "joining"
    /\ UNCHANGED <<ledger, collection, pc, pending_docs, pos, inSession,
                   loaded, failed_attempts, interval, scan_error, outside_vars>>

\* worker.join(timeout=30) has returned for every thread: the thread left
\* its loop, or it is still inside a scan and the join timed out.
JoinReturned == \A w \in Workers : pc[w] # "sleep"

\* sys.exit(0) in signal_handler: SystemExit unwinds the interrupted main
\* loop (no `except Exception` catches it) and the daemon threads end with
\* the process.
ProcessExit ==
    /\ shutdown = "joining"
    /\ JoinReturned
    /\ shutdown' = "exited"
    /\ UNCHANGED <<ledger, collection, pc, pending_docs, pos, inSession,
                   loaded, failed_attempts, stop_event, interval, scan_error,
                   outside_vars>>

\* A step of executor e.
ExecutorStep(e) ==
    \/ LoopTest(e)
    \/ Scan(e)
    \/ ScanNothing(e)
    \/ ScanRaises(e)
    \/ Claim(e)
    \/ IndexRaises(e)
    \/ IndexChunks(e)
    \/ CollectionAdd(e)
    \/ CollectionAddRaises(e)
    \/ MarkCompleted(e)
    \/ CommitRaises(e)
    \/ IndexingError(e)

\* The executors without any shutdown request.
Pipeline == \E e \in Executors : ExecutorStep(e)

Next ==
    \/ Pipeline
    \/ SignalHandler
    \/ ProcessExit

\* ------------------------------------------- start() and stop() as an API
\* The threads once start() has created num_workers more; a new thread
\* enters _worker_loop at its loop test.
ThreadsAfterStart(num_workers) ==
    1..(Cardinality(DOMAIN pc) + num_workers)

\* The per-thread state f extended to the threads start() has just created,
\* which begin with the value fresh.
WithNewThreads(f, num_workers, fresh) ==
    [e \in ThreadsAfterStart(num_workers) |->
        IF e \in DOMAIN f THEN f[e] ELSE fresh]

\* start() on an indexer whose pool is not running: num_workers daemon
\* threads are created, started and appended to self.workers.  Nothing in
\* start() touches stop_event.
Start ==
    /\ shutdown = "idle"
    /\ Cardinality(DOMAIN pc) < MaxStarts * OneWorker
    /\ pc' = WithNewThreads(pc, OneWorker, "sleep")
    /\ pending_docs' = WithNewThreads(pending_docs, OneWorker, <<>>)
    /\ pos' = WithNewThreads(pos, OneWorker, 0)
    /\ inSession' = WithNewThreads(inSession, OneWorker, FALSE)
    /\ loaded' = WithNewThreads(loaded, OneWorker, {})
    /\ interval' = WithNewThreads(interval, OneWorker, 0)
    /\ scan_error' = WithNewThreads(scan_error, OneWorker, FALSE)
    /\ shutdown' = "running"
    /\ UNCHANGED <<ledger, collection, failed_attempts, stop_event,
                   outside_vars>>

\* stop() called by the owner of the indexer: self.stop_event.set(), then
\* the joins begin.
Stop ==
    /\ shutdown = "running"
    /\ stop_event' = TRUE
    /\ shutdown' = "joining"
    /\ UNCHANGED <<ledger, collection, pc, pending_docs, pos, inSession,
                   loaded, failed_attempts, interval, scan_error, outside_vars>>

\* Every join has returned; self.workers.clear() and stop() returns.  A
\* thread whose join timed out goes on as a daemon thread.
StopReturns ==
    /\ shutdown = "joining"
    /\ JoinReturned
    /\ shutdown' = "idle"
    /\ UNCHANGED <<ledger, collection, pc, pending_docs, pos, inSession,
                   loaded, failed_attempts, stop_event, interval, scan_error,
                   outside_vars>>

\* A DocumentIndexer right after its constructor: self.workers = [], the
\* stop event clear, the uploaded documents pending.
InitRestart ==
    /\ ledger = [d \in Docs |-> NewDocument]
    /\ collection = {}
    /\ pc = <<>>
    /\ pending_docs = <<>>
    /\ pos = <<>>
    /\ inSession = <<>>
    /\ loaded = <<>>
    /\ failed_attempts = [d \in Docs |-> 0]
    /\ stop_event = FALSE
    /\ shutdown = "idle"
    /\ interval = <<>>
    /\ scan_error = <<>>
    /\ Constructed
    /\ api = [op |-> "none"]
    /\ ProcessorCreated
    /\ Loaded(ValidConfig)

NextRestart ==
    \/ Pipeline
    \/ Start
    \/ Stop
    \/ StopReturns

\* An indexer used through start() and stop() alone, without worker.py.
SpecRestart == InitRestart /\ [][NextRestart]_vars

\* ------------------------------------------------- search and get_stats
\* Variant that returns as many results as were asked for.
AsManyAsAsked(k) == k

\* collection.query(n_results=k): the k nearest entries, all of them when
\* the collection holds fewer.
QueryResults(k) == Min(k, Cardinality(collection))

\* Variant of the query that takes what it returns out of the collection.
CollectionAfterTake(k) ==
    IF collection = {} THEN {} ELSE collection \ {CHOOSE x \in collection : TRUE}

\* collection.query leaves the collection as it is.
CollectionAfterQuery(k) == collection

\* What a call search(query, n_results=k) hands to its caller: `error`
\* tells whether encode() or query() raised inside, `raised` whether the
\* caller saw an exception, `results` is len(formatted_results), `size`
\* the size of the collection at the call.
SearchOutcome(k, error) ==
    [op |-> "search", n_results |-> k, size |-> Cardinality(collection),
     error |-> error, raised |-> FALSE,
     results |-> IF error THEN 0 ELSE QueryResults(k)]

\* search() with the embedding and the query going through.
Search ==
    /\ \E k \in 1..MaxResults : 
          /\ api' = SearchOutcome(k, FALSE)
          /\ collection' = CollectionAfterQuery(k)
    /\ UNCHANGED <<ledger, pc, pending_docs, pos, inSession, loaded,
                   failed_attempts, stop_event, shutdown, interval,
                   scan_error, chunker_vars, singleton_vars, legacy_vars>>

\* search() when encode() or collection.query() raises: `except Exception`
\* logs the error and returns [].
SearchRaises ==
    /\ \E k \in 1..MaxResults : api' = SearchOutcome(k, TRUE)
    /\ UNCHANGED <<ledger, collection, pc, pending_docs, pos, inSession,
                   loaded, failed_attempts, stop_event, shutdown, interval,
                   scan_error, chunker_vars, singleton_vars, legacy_vars>>

\* session.query(Document).filter_by(status=...).count()
CountByStatus(st) == Cardinality({d \in Docs : ledger[d].status = st})

\* The queries of get_stats() in the order the code issues them.
StatsQueries ==
    <<"total", "pending", "processing", "completed", "failed",
      "collection_size">>

\* What one query of get_stats() returns in the current state.
QueryCount(q) ==
    IF q = "total" THEN Cardinality(Docs)
    ELSE IF q = "collection_size" THEN Cardinality(collection)
    ELSE CountByStatus(q)

\* get_stats() is entered: session = self.db_session(), the calling
\* thread's own Session; no query has run yet.
GetStats ==
    /\ api.op # "counting"
    /\ api' = [op |-> "counting", next |-> 1, total |-> 0, pending |-> 0,
               processing |-> 0, completed |-> 0, failed |-> 0,
               collection_size |-> 0]
    /\ UNCHANGED <<ledger, collection, pc, pending_docs, pos, inSession,
                   loaded, failed_attempts, stop_event, shutdown, interval,
                   scan_error, chunker_vars, singleton_vars, legacy_vars>>

\* The next query of get_stats().  Each is a statement of its own: the code
\* asks for no isolation level, and under the default of the engine
\* (autocommit reads of pysqlite, READ COMMITTED) a commit of an executor
\* between two queries is seen by the second.  After the last query the
\* dictionary is returned and the Session closed.
StatsQuery ==
    /\ api.op = "counting"
    /\ LET q == StatsQueries[api.next]
       IN  api' = [api EXCEPT ![q] = QueryCount(q),
                              !.next = @ + 1,
                              !.op = IF api.next = Len(StatsQueries)
                                     THEN "stats" ELSE "counting"]
    /\ UNCHANGED <<ledger, collection, pc, pending_docs, pos, inSession,
                   loaded, failed_attempts, stop_event, shutdown, interval,
                   scan_error, chunker_vars, singleton_vars, legacy_vars>>

\* The worker process with the main loop alone, and callers of search()
\* and get_stats() beside it.
NextApi ==
    \/ Next
    \/ Search
    \/ SearchRaises
    \/ GetStats
    \/ StatsQuery

SpecApi == InitSolo /\ [][NextApi]_vars

\* The worker process with the main loop alone.
SpecSolo == InitSolo /\ [][Next]_vars

\* ------------------------------------------------------------ get_indexer
Callers == 1..NumCallers

\* A process, such as the web application, in which no thread has called
\* get_indexer() yet and none runs process_pending_documents.
InitSingleton ==
    /\ Launched(MainLoop - 1)
    /\ Loaded(ValidConfig)
    /\ api = [op |-> "none"]
    /\ indexer_instance = NULL
    /\ indexer_lock = NULL
    /\ caller_pc = [c \in Callers |-> "call"]
    /\ returned = [c \in Callers |-> NULL]
    /\ constructor_runs = 0
    /\ ProcessorCreated

\* `return _indexer_instance`
ReturnInstance(c) ==
    /\ caller_pc' = [caller_pc EXCEPT ![c] = "done"]
    /\ returned' = [returned EXCEPT ![c] = indexer_instance]

\* The first `if _indexer_instance is None`, made without the lock.
FirstCheck(c) ==
    /\ caller_pc[c] = "call"
    /\ IF indexer_instance = NULL
       THEN /\ caller_pc' = [caller_pc EXCEPT ![c] = "lock"]
            /\ UNCHANGED returned
       ELSE ReturnInstance(c)
    /\ UNCHANGED <<indexer_instance, indexer_lock, constructor_runs>>

\* `with _indexer_lock:` is entered.
AcquireLock(c) ==
    /\ caller_pc[c] = "lock"
    /\ indexer_lock = NULL
    /\ indexer_lock' = c
    /\ caller_pc' = [caller_pc EXCEPT ![c] = "check"]
    /\ UNCHANGED <<indexer_instance, returned, constructor_runs>>

\* Variant without the test under the lock.
NeverChecked == TRUE

\* The second `if _indexer_instance is None`, made under the lock.
InstanceMissing == indexer_instance = NULL

SecondCheck(c) ==
    /\ caller_pc[c] = "check"
    /\ IF InstanceMissing
       THEN /\ caller_pc' = [caller_pc EXCEPT ![c] = "construct"]
            /\ UNCHANGED <<indexer_lock, returned>>
       ELSE /\ indexer_lock' = NULL
            /\ ReturnInstance(c)
    /\ UNCHANGED <<indexer_instance, constructor_runs>>

\* DocumentIndexer(config_path) returns: the new object, named by the
\* number of the constructor run, is stored, the lock released, and the
\* object returned.
ConstructorReturns(c) ==
    /\ caller_pc[c] = "construct"
    /\ constructor_runs' = constructor_runs + 1
    /\ indexer_instance' = constructor_runs + 1
    /\ indexer_lock' = NULL
    /\ caller_pc' = [caller_pc EXCEPT ![c] = "done"]
    /\ returned' = [returned EXCEPT ![c] = constructor_runs + 1]

\* DocumentIndexer(config_path) raises (directories, ChromaDB, the
\* embedding model, the database): the lock is released and the exception
\* reaches the caller of get_indexer().
ConstructorRaises(c) ==
    /\ caller_pc[c] = "construct"
    /\ constructor_runs' = constructor_runs + 1
    /\ indexer_lock' = NULL
    /\ caller_pc' = [caller_pc EXCEPT ![c] = "raised"]
    /\ UNCHANGED <<indexer_instance, returned>>

GetIndexer ==
    /\ \E c \in DOMAIN caller_pc :
          \/ FirstCheck(c)
          \/ AcquireLock(c)
          \/ SecondCheck(c)
          \/ ConstructorReturns(c)
          \/ ConstructorRaises(c)
    /\ UNCHANGED <<ledger, collection, pc, pending_docs, pos, inSession,
                   loaded, failed_attempts, stop_event, shutdown, interval,
                   scan_error, chunker_vars, api, legacy_vars>>

SpecSingleton == InitSingleton /\ [][GetIndexer]_vars

\* ------------------------------------------------ _chunk_text on its own
Alphabet == {"a", ".", " ", Newline}

Texts == UNION {[1..n -> Alphabet] : n \in 0..MaxTextLen}

\* The configurations with 0 <= chunk_overlap < chunk_size.
ChunkerConfigs ==
    {c \in [chunk_size : 1..MaxChunkSize,
            chunk_overlap : 0..(MaxChunkSize - 1),
            chunking_strategy : {"fixed", "semantic"}] :
        c.chunk_overlap < c.chunk_size}

\* 250 letters under chunk_size 100, chunk_overlap 20, fixed strategy.
ScenarioText == [i \in 1..250 |-> "a"]
ScenarioConfig ==
    [chunk_size |-> 100, chunk_overlap |-> 20, chunking_strategy |-> "fixed"]

\* A call self._chunk_text(text) is about to be made.
InitChunker ==
    /\ Started(OneWorker)
    /\ \/ /\ config \in ChunkerConfigs
          /\ text \in Texts
       \/ /\ config = ScenarioConfig
          /\ text = ScenarioText
    /\ chunks = <<>>
    /\ chunker_pc = "call"

\* The call returns its list, or raises.
CallChunkText ==
    /\ chunker_pc = "call"
    /\ LET r == ChunkText(text, config)
       IN  /\ chunks' = r.chunks
           /\ chunker_pc' = IF r.raised THEN "raised" ELSE "returned"
    /\ UNCHANGED <<ledger, collection, pc, pending_docs, pos, inSession,
                   loaded, failed_attempts, stop_event, shutdown, interval,
                   scan_error, config, text, api, singleton_vars,
                   legacy_vars>>

Spec == Init /\ [][Next]_vars

\* Calls of _chunk_text over all bounded texts and valid configurations.
SpecChunker == InitChunker /\ [][CallChunkText]_vars

\* The same program with two worker threads besides the main loop.
SpecPool == InitPool /\ [][Next]_vars

\* The main loop and one worker thread left to run, with no signal sent:
\* the operating system goes on scheduling each of the two threads, so an
\* executor that can take a step eventually takes one; and the query of a
\* scan, tried every ten seconds while documents are pending, does not
\* raise for ever.
SpecLive ==
    /\ Init
    /\ [][Pipeline]_vars
    /\ \A e \in MainLoop..OneWorker :
          WF_vars(ExecutorStep(e)) /\ SF_vars(Scan(e))

\* The configurations load_config() accepts although chunk_overlap is not
\* below chunk_size.
DegenerateConfigs ==
    {c \in [chunk_size : 1..MaxChunkSize,
            chunk_overlap : 1..(MaxChunkSize + 1),
            chunking_strategy : {"fixed", "semantic"}] :
        c.chunk_overlap - c.chunk_size \in {0, 1}}

InitDegenerate ==
    /\ Started(OneWorker)
    /\ \E cfg \in DegenerateConfigs : Loaded(cfg)

\* The worker process started under such a configuration.
SpecDegenerate == InitDegenerate /\ [][Next]_vars

\* ------------------------------------- src/cygnus/scheduler.py (legacy)
\* self.scheduler is set to a new AsyncIOScheduler, the job is added.
SchedulerCreated(state) ==
    /\ schedulers' = Append(schedulers, state)
    /\ scheduler' = Len(schedulers) + 1

\* DocumentProcessor.start(): a no-op while self.scheduler is set; otherwise
\* a scheduler is created, given the job and started.
ProcessorStart ==
    /\ last_call' = "start"
    /\ IF scheduler # NULL
       THEN UNCHANGED <<scheduler, schedulers>>
       ELSE /\ Len(schedulers) < MaxSchedulers
            /\ SchedulerCreated("running")
    /\ UNCHANGED <<files, legacy_scan, clock>>
    /\ UNCHANGED <<ledger, collection, pc, pending_docs, pos, inSession,
                   loaded, failed_attempts, stop_event, shutdown, interval,
                   scan_error, chunker_vars, api, singleton_vars>>

\* start() where self.scheduler.start() raises (AsyncIOScheduler finds no
\* event loop): the assignment of line 20 and add_job have happened, the
\* scheduler never runs, and the exception leaves start().
ProcessorStartRaises ==
    /\ scheduler = NULL
    /\ Len(schedulers) < MaxSchedulers
    /\ last_call' = "start"
    /\ SchedulerCreated("created")
    /\ UNCHANGED <<files, legacy_scan, clock>>
    /\ UNCHANGED <<ledger, collection, pc, pending_docs, pos, inSession,
                   loaded, failed_attempts, stop_event, shutdown, interval,
                   scan_error, chunker_vars, api, singleton_vars>>

\* scheduler.shutdown() of a running scheduler.
SchedulerShutdown(state) == "shutdown"

\* DocumentProcessor.stop(): shutdown() of a scheduler that was never
\* started raises, and line 37 is not reached.
ProcessorStop ==
    /\ last_call' = "stop"
    /\ IF scheduler = NULL
       THEN UNCHANGED <<scheduler, schedulers>>
       ELSE IF schedulers[scheduler] = "running"
       THEN /\ schedulers' = [schedulers EXCEPT
                                 ![scheduler] = SchedulerShutdown(@)]
            /\ scheduler' = NULL
       ELSE UNCHANGED <<scheduler, schedulers>>
    /\ UNCHANGED <<files, legacy_scan, clock>>
    /\ UNCHANGED <<ledger, collection, pc, pending_docs, pos, inSession,
                   loaded, failed_attempts, stop_event, shutdown, interval,
                   scan_error, chunker_vars, api, singleton_vars>>

\* Schedulers whose job can fire.
RunningSchedulers ==
    {i \in DOMAIN schedulers : schedulers[i] = "running"}

\* Variant of the retry condition that takes every FAILED file.
AnyAttempt(attempt) == TRUE

\* last_processing_attempt == None or <= utcnow() - timedelta(minutes=15)
RetryDue(attempt) == attempt = NULL \/ attempt <= clock - CutoffMinutes

\* The WHERE clause of the query.
NeedsProcessing(row) ==
    \/ row.processing_status = PENDING
    \/ row.processing_status = FAILED /\ RetryDue(row.last_processing_attempt)

\* db.exec(query).all(), without ORDER BY or LIMIT: the rows in any order.
Orderings(S) ==
    {b \in [1..Cardinality(S) -> S] :
        \A i, j \in 1..Cardinality(S) : i # j => b[i] # b[j]}

\* The file the for-loop of the job is at.
CurrentFile == legacy_scan.pending_files[legacy_scan.pos]

\* What no step of the job writes.
UnchangedByJob ==
    /\ UNCHANGED <<scheduler, schedulers, last_call, clock>>
    /\ UNCHANGED <<ledger, collection, pc, pending_docs, pos, inSession,
                   loaded, failed_attempts, stop_event, shutdown, interval,
                   scan_error, chunker_vars, api, singleton_vars>>

\* The job fires in a running scheduler and its query returns rows.
JobFires ==
    /\ RunningSchedulers # {}
    /\ legacy_scan.pc = "idle"
    /\ LET rows == {f \in Files : NeedsProcessing(files[f])}
       IN  /\ rows # {}
           /\ \E b \in Orderings(rows) :
                 legacy_scan' = [pc |-> "claim", pending_files |-> b,
                                 pos |-> 1, selected |-> rows]
    /\ UNCHANGED files
    /\ UnchangedByJob

\* processing_status = PROCESSING, last_processing_attempt = utcnow(),
\* db.commit()
FileClaimed ==
    /\ legacy_scan.pc = "claim"
    /\ files' = [files EXCEPT ![CurrentFile] =
                    [@ EXCEPT !.processing_status = PROCESSING,
                              !.last_processing_attempt = clock]]
    /\ legacy_scan' = [legacy_scan EXCEPT !.pc = "process"]
    /\ UnchangedByJob

\* A statement of the try block raises: the claim commit (which is rolled
\* back), process_document, or the commit of COMPLETED.
TryRaises ==
    /\ legacy_scan.pc \in {"claim", "process", "complete"}
    /\ legacy_scan' = [legacy_scan EXCEPT !.pc = "except"]
    /\ UNCHANGED files
    /\ UnchangedByJob

\* embeddings.processor.process_document(file, db) returns.
DocumentProcessed ==
    /\ legacy_scan.pc = "process"
    /\ legacy_scan' = [legacy_scan EXCEPT !.pc = "complete"]
    /\ UNCHANGED files
    /\ UnchangedByJob

\* The job ends with its loop at position at: finally: db.close().
ScanEnded(at) == [legacy_scan EXCEPT !.pc = "idle", !.pos = at]

\* The for-loop of the job goes to its next file, or the loop is through
\* (create_index) and the job ends.
NextFile ==
    IF legacy_scan.pos < Len(legacy_scan.pending_files)
    THEN [legacy_scan EXCEPT !.pc = "claim", !.pos = @ + 1]
    ELSE ScanEnded(legacy_scan.pos + 1)

\* processing_status = COMPLETED, db.commit()
FileCompleted ==
    /\ legacy_scan.pc = "complete"
    /\ files' = [files EXCEPT ![CurrentFile].processing_status = COMPLETED]
    /\ legacy_scan' = NextFile
    /\ UnchangedByJob

\* The inner handler: processing_status = FAILED, processing_error =
\* str(e), db.commit()
FileFailed ==
    /\ legacy_scan.pc = "except"
    /\ files' = [files EXCEPT ![CurrentFile] =
                    [@ EXCEPT !.processing_status = FAILED,
                              !.processing_error = 1]]
    /\ legacy_scan' = NextFile
    /\ UnchangedByJob

\* The commit of the inner handler raises: the exception leaves the
\* for-loop, the outer handler prints it and the job ends.
HandlerRaises ==
    /\ legacy_scan.pc = "except"
    /\ legacy_scan' = ScanEnded(legacy_scan.pos)
    /\ UNCHANGED files
    /\ UnchangedByJob

\* Five minutes pass.
Tick ==
    /\ clock + IntervalMinutes <= MaxClock
    /\ clock' = clock + IntervalMinutes
    /\ UNCHANGED <<scheduler, schedulers, last_call, files, legacy_scan>>
    /\ UNCHANGED <<ledger, collection, pc, pending_docs, pos, inSession,
                   loaded, failed_attempts, stop_event, shutdown, interval,
                   scan_error, chunker_vars, api, singleton_vars>>

\* A process that uses the legacy processor alone.
InitLegacy ==
    /\ Launched(MainLoop - 1)
    /\ Constructed
    /\ api = [op |-> "none"]
    /\ Loaded(ValidConfig)
    /\ ProcessorCreated

NextLegacy ==
    \/ ProcessorStart
    \/ ProcessorStartRaises
    \/ ProcessorStop
    \/ JobFires
    \/ FileClaimed
    \/ TryRaises
    \/ DocumentProcessed
    \/ FileCompleted
    \/ FileFailed
    \/ HandlerRaises
    \/ Tick

SpecLegacy == InitLegacy /\ [][NextLegacy]_vars

\* ----------------------------------------------------------------- claims
\* Executor e is inside _index_document(d).
InIndexDocument(e, d) ==
    /\ pc[e] \in {"index", "add", "commit"}
    /\ CurrentDoc(e) = d

\* Executor e takes the except path of its current document in this step.
ErrorStep(e) == pc[e] = "except" /\ pc'[e] # "except"

Quiet == \A e \in Executors : pc[e] = "sleep"

\* C1: no two executors are inside _index_document for the same document
\* at the same time.
C1_NoDoubleProcessing ==
    \A d \in Docs : \A e1, e2 \in Executors :
        (InIndexDocument(e1, d) /\ InIndexDocument(e2, d)) => e1 = e2

\* C2: once a row is COMPLETED or FAILED, no step of an executor changes
\* its status.
C2_TerminalStatusesStay ==
    [][\A d \in Docs :
          ledger[d].status \in {COMPLETED, FAILED}
              => ledger'[d].status = ledger[d].status]_vars

\* C3: the retry_count of every row stays at or below max_retries.
C3_RetryCountBounded ==
    \A d \in Docs : ledger[d].retry_count <= MaxRetries

\* C3 witness: a document has failed two indexing attempts.
C3_Witness ==
    \E d \in Docs :
        failed_attempts[d] >= 2 /\ ledger[d].retry_count <= MaxRetries

\* C4: a failed attempt on a PROCESSING row with retry count r writes
\* retry_count = r + 1 and the truncated message, and sets PENDING when
\* r + 1 < max_retries and FAILED otherwise.
C4_FailureDecisionRule ==
    [][\A e \in Executors :
          (ErrorStep(e) /\ ledger[CurrentDoc(e)].status = PROCESSING) =>
              LET d == CurrentDoc(e)
                  r == ledger[d].retry_count
              IN  /\ ledger'[d].retry_count = r + 1
                  /\ ledger'[d].error_message \in 0..ErrorColumnLen
                  /\ ledger'[d].status =
                         IF r + 1 < MaxRetries THEN PENDING ELSE FAILED]_vars

\* C5: a row is FAILED exactly when the document has failed max_retries
\* attempts in a row, and no attempt follows the max_retries-th failure.
C5_FailedIffMaxRetries ==
    \A d \in Docs :
        /\ failed_attempts[d] <= MaxRetries
        /\ (ledger[d].status = FAILED) <=> (failed_attempts[d] = MaxRetries)

\* C6: document 1 never indexes; between scans, after 1 or 2 failed scans
\* it is PENDING with retry_count 1 or 2, after 3 it is FAILED with
\* retry_count 3 and an error message.
C6_AlwaysFailingScenario ==
    LET k == failed_attempts[1]
        row == ledger[1]
    IN  Quiet =>
          /\ k \in {1, 2} => (row.status = PENDING /\ row.retry_count = k)
          /\ k = 3 => /\ row.status = FAILED
                      /\ row.retry_count = 3
                      /\ row.error_message # NULL

\* C7: a row that is not COMPLETED has chunk_count 0 and no indexed_date.
C7_ChunkCountOnlyWhenCompleted ==
    \A d \in Docs :
        ledger[d].status # COMPLETED =>
            (ledger[d].chunk_count = 0 /\ ledger[d].indexed_date = NULL)

\* C8: a PROCESSING or COMPLETED row has no error_message.
C8_ErrorMessageOnlyAfterFailure ==
    \A d \in Docs :
        ledger[d].status \in {PROCESSING, COMPLETED}
            => ledger[d].error_message = NULL

\* C8 witness: a document is PROCESSING again or COMPLETED after an attempt
\* on it has failed.
C8_Witness ==
    \E d \in Docs :
        /\ failed_attempts[d] >= 1
        /\ ledger[d].status = PROCESSING
        /\ \E e \in Executors : InIndexDocument(e, d)
        /\ ledger[d].error_message = NULL

\* All chunks of d are in the collection.
Stored(d) ==
    \A i \in 0..(ChunksOf(d) - 1) : HasId(d, i)

\* C9: a COMPLETED row has chunk_count >= 1, an indexed_date and no
\* error_message; a row becomes COMPLETED only in the step of an executor
\* that is past the store add with all chunks stored, and that one step
\* writes the four columns together.
C9_CompletedOnlyAfterAllSteps ==
    /\ [](\A d \in Docs :
            ledger[d].status = COMPLETED =>
                /\ ledger[d].chunk_count >= 1
                /\ ledger[d].indexed_date # NULL
                /\ ledger[d].error_message = NULL)
    /\ [][\A d \in Docs :
            (ledger[d].status # COMPLETED /\ ledger'[d].status = COMPLETED) =>
                /\ \E e \in Executors :
                      pc[e] = "commit" /\ CurrentDoc(e) = d /\ inSession[e]
                /\ Stored(d)
                /\ ledger'[d].chunk_count = ChunksOf(d)
                /\ ledger'[d].indexed_date = Now
                /\ ledger'[d].error_message = NULL]_vars

\* C9 witness: a document has been indexed and marked COMPLETED.
C9_Witness ==
    \E d \in Docs : ledger[d].status = COMPLETED /\ Stored(d)

\* C10: the except path of a document leaves its row PENDING or FAILED and
\* the for-loop goes on with the next document of the batch.
C10_ErrorsBecomeTransitions ==
    [][\A e \in Executors :
          ErrorStep(e) =>
              /\ ledger'[CurrentDoc(e)].status \in {PENDING, FAILED}
              /\ pos[e] < Len(pending_docs[e]) =>
                    (pc'[e] = "claim" /\ pos'[e] = pos[e] + 1)]_vars

C12_NoMidDocumentAbort ==
    shutdown = "exited" =>
        \A e \in Executors : \A d \in Docs :
            ~(InIndexDocument(e, d) /\ ledger[d].status = PROCESSING)

\* C13: with num_workers = 1 at most one executor is inside
\* process_pending_documents at any time.
C13_ExecutorsEqualNumWorkers ==
    Cardinality({e \in Executors : pc[e] \notin {"sleep", "stopped"}})
        <= OneWorker

Returned == chunker_pc = "returned"

ChunkLengths == [i \in 1..Len(chunks) |-> Len(chunks[i])]

WithinChunkSize == \A i \in 1..Len(chunks) : Len(chunks[i]) <= config.chunk_size

\* The last chunk_overlap characters of each chunk are the first of the
\* next one, where the next one has that many.
ConsecutiveOverlap ==
    \A i \in 1..(Len(chunks) - 1) :
        (config.chunk_overlap > 0
            /\ Len(chunks[i + 1]) >= config.chunk_overlap) =>
                Tail_(chunks[i], config.chunk_overlap)
                    = Slice(chunks[i + 1], 0, config.chunk_overlap)

C17_ChunkingTotal ==
    chunker_pc # "call" =>
        /\ Returned
        /\ \A i \in 1..Len(chunks) : chunks[i] # <<>>
        /\ (chunks = <<>>) <=> Blank(text)

\* C17 witness: a text with whitespace in it was cut into several chunks by
\* the semantic strategy.
C17_Witness ==
    /\ Returned /\ config.chunking_strategy = "semantic"
    /\ \E i \in 1..Len(text) : text[i] \in Whitespace
    /\ Len(chunks) >= 2

\* C18: every chunk is at most chunk_size + chunk_overlap long, under
\* either strategy.
C18_ChunkLengthBound ==
    Returned =>
        \A i \in 1..Len(chunks) :
            Len(chunks[i]) <= config.chunk_size + config.chunk_overlap

\* C19: under a configuration with chunk_overlap >= chunk_size no document
\* is ever claimed: every row stays PENDING and untouched.
C19_DegenerateOverlapRejected ==
    config.chunk_overlap >= config.chunk_size =>
        \A d \in Docs : ledger[d] = NewDocument

\* C20: a worker thread whose scan ended in a scan-level error sleeps the
\* error interval, not the scan interval.
C20_ScanErrorIdlesLonger ==
    \A e \in Workers :
        (pc[e] = "sleep" /\ scan_error[e]) => interval[e] = ErrorInterval

\* C21: a worker thread leaves its loop only at a loop test made with the
\* stop event set; while the event is not set, the loop test that follows
\* a scan, failed or not, starts another scan.
C21_WorkerSurvivesErrors ==
    [][\A w \in Workers :
          /\ pc'[w] = "stopped" =>
                (pc[w] = "stopped" \/ (pc[w] = "sleep" /\ stop_event))
          /\ (pc[w] = "sleep" /\ ~stop_event /\ pc'[w] # "sleep")
                => pc'[w] = "scan"]_vars

\* C21 witness: a worker thread is in a new scan after a scan that ended
\* in an exception.
C21_Witness ==
    \E w \in Workers : scan_error[w] /\ pc[w] = "scan" /\ ~stop_event

\* C22: a search in which the embedding or the store query raised ends
\* with an exception at the caller.
C22_SearchErrorsPropagate ==
    (api.op = "search" /\ api.error) => api.raised

\* C23: a search made on an empty collection returns an empty list and no
\* exception.
C23_EmptyStoreEmptyList ==
    (api.op = "search" /\ api.size = 0) =>
        (api.results = 0 /\ ~api.raised)

\* C23 witness: a search for MaxResults results went through on an empty
\* collection.
C23_Witness ==
    /\ api.op = "search" /\ api.size = 0
    /\ ~api.error /\ api.n_results = MaxResults
    /\ api.results = 0

\* C24: a step of search() or get_stats(), that is a step that is none of
\* an executor or of the signal handler, leaves the ledger, the collection,
\* the executors and the stop event as they are.
C24_PureReads ==
    [][(api' # api \/ (pc' = pc /\ shutdown' = shutdown)) =>
          UNCHANGED <<ledger, collection, pc, stop_event, shutdown>>]_vars

\* C24 witness: get_stats() has run while a document was PROCESSING and the
\* collection held entries, and both are as they were.
C24_Witness ==
    /\ api.op = "stats"
    /\ api.processing >= 1 /\ api.collection_size >= 1
    /\ CountByStatus(PROCESSING) = api.processing
    /\ Cardinality(collection) = api.collection_size

\* C25 (as stated): the constructor runs at most once, and all calls that
\* returned hold the same instance.
C25_ConstructorRunsOnce ==
    /\ constructor_runs <= 1
    /\ \A c1, c2 \in DOMAIN caller_pc :
          (caller_pc[c1] = "done" /\ caller_pc[c2] = "done")
              => returned[c1] = returned[c2]

\* C25 (amended): every call that returned holds the one instance stored in
\* the global, and once an instance is stored the constructor does not run
\* again and the global is not assigned again.
C25_OneInstance ==
    /\ [](\A c \in DOMAIN caller_pc :
            caller_pc[c] = "done" =>
                (returned[c] # NULL /\ returned[c] = indexer_instance))
    /\ [][indexer_instance # NULL =>
            UNCHANGED <<indexer_instance, constructor_runs>>]_vars

\* C25 witness: two threads hold the same instance, made by a constructor
\* run that followed a failed one.
C25_Witness ==
    \E c1, c2 \in DOMAIN caller_pc :
        /\ c1 # c2
        /\ caller_pc[c1] = "done" /\ caller_pc[c2] = "done"
        /\ returned[c1] = returned[c2]
        /\ constructor_runs >= 2

\* C26: for a COMPLETED row with chunk_count = n the collection holds, for
\* every i in 0..n-1, the entry of that document with chunk_index i and
\* total_chunks n.
C26_StoreBeforeLedger ==
    \A d \in Docs :
        ledger[d].status = COMPLETED =>
            \A i \in 0..(ledger[d].chunk_count - 1) :
                [document_id |-> d, chunk_index |-> i,
                 total_chunks |-> ledger[d].chunk_count] \in collection

\* C26 witness: a row is COMPLETED with a chunk count of at least one, and
\* the executor that indexed it is back outside _index_document.
C26_Witness ==
    \E d \in Docs :
        /\ ledger[d].status = COMPLETED
        /\ ledger[d].chunk_count >= 1
        /\ \A e \in Executors : ~InIndexDocument(e, d)
        /\ Cardinality(EntriesOf(d)) >= ledger[d].chunk_count

\* C27: every document that is PENDING is eventually COMPLETED or FAILED.
C27_EveryPendingDocumentSettles ==
    \A d \in Docs :
        (ledger[d].status = PENDING)
            ~> (ledger[d].status \in {COMPLETED, FAILED})

\* C28: a batch holds at most ten documents, and with a single executor
\* running the scans at most one row is PROCESSING at any time.
C28_OneDocumentInProcessing ==
    /\ \A e \in Executors : Len(pending_docs[e]) <= BatchLimit
    /\ Cardinality({d \in Docs : ledger[d].status = PROCESSING}) <= 1

\* C29: the retry_count of a row that was never indexed equals the number
\* of failed attempts on its document; a step changes retry_count only by
\* adding one, and only in the except path of an attempt on that document.
C29_RetryCountCountsFailures ==
    /\ [](\A d \in Docs :
            ledger[d].indexed_date = NULL =>
                ledger[d].retry_count = failed_attempts[d])
    /\ [][\A d \in Docs :
            ledger'[d].retry_count # ledger[d].retry_count =>
                /\ ledger'[d].retry_count = ledger[d].retry_count + 1
                /\ \E e \in Executors :
                      ErrorStep(e) /\ CurrentDoc(e) = d]_vars

\* C30: every PROCESSING row is the current document of an executor of a
\* live process that is between its claim and the end of its attempt; so
\* when no executor is inside process_pending_documents, or after the
\* process has exited, no row is PROCESSING.
C30_NoStrandedProcessing ==
    \A d \in Docs :
        ledger[d].status = PROCESSING =>
            \E e \in Executors :
                /\ shutdown # "exited"
                /\ pc[e] \in {"index", "add", "commit", "except"}
                /\ CurrentDoc(e) = d

\* Threads created by the latest start().
LatestWorkers ==
    {w \in Workers : w > Cardinality(DOMAIN pc) - OneWorker}

\* C31: while the pool is running, after a first start() or after a
\* start() that followed a stop(), no thread of the latest start() has left
\* its loop.
C31_RestartedPoolScans ==
    shutdown = "running" =>
        \A w \in LatestWorkers : pc[w] # "stopped"

C33_StatsAddUp ==
    api.op = "stats" =>
        api.total = api.pending + api.processing + api.completed + api.failed

\* For each chunk flushed inside the loops of the call that returned,
\* whether it was flushed as a bare seed.
SeedOnlyFlushes ==
    AddParagraphs(EmptyBuffer, SplitParagraphs(text),
                  config.chunk_size, config.chunk_overlap).seed_only

\* C34: under the semantic strategy with 0 <= chunk_overlap < chunk_size,
\* no chunk of the returned list is a seed to which no text was added.
C34_EveryChunkHasNewText ==
    (Returned /\ config.chunking_strategy = "semantic"
        /\ config.chunk_overlap < config.chunk_size) =>
        \A i \in 1..Len(SeedOnlyFlushes) : ~SeedOnlyFlushes[i]

\* C35: at most one scheduler is running, and the processor holds a
\* scheduler exactly when the last call made on it was start().
C35_OneSchedulerAfterStart ==
    /\ Cardinality(RunningSchedulers) <= 1
    /\ last_call = "start" => scheduler # NULL
    /\ last_call \in {"none", "stop"} => scheduler = NULL

\* The step in which a run of the job selects its files takes every
\* PENDING file, a FAILED file only when its last attempt is null or at
\* least 15 minutes old, and no PROCESSING or COMPLETED file.
SelectionRule ==
    (legacy_scan.pc = "idle" /\ legacy_scan'.pc = "claim") =>
        \A f \in Files :
           LET row == files[f]
           IN  /\ row.processing_status = PENDING
                   => f \in legacy_scan'.selected
               /\ f \in legacy_scan'.selected =>
                   /\ row.processing_status \in {PENDING, FAILED}
                   /\ row.processing_status = FAILED =>
                         \/ row.last_processing_attempt = NULL
                         \/ clock - row.last_processing_attempt
                                >= CutoffMinutes

\* C36 (as stated): the selection rule, and when a run has ended every file
\* it selected is COMPLETED or FAILED.
C36_LegacyScanSettlesFiles ==
    /\ [][SelectionRule]_vars
    /\ [](legacy_scan.pc = "idle" =>
            \A f \in legacy_scan.selected :
                files[f].processing_status \in {COMPLETED, FAILED})

\* C36 (amended): the selection rule; when a run has ended, every file its
\* loop finished is COMPLETED or FAILED; a run ended by an exception in the
\* inner handler leaves the file it was at PROCESSING, PENDING or FAILED and
\* the files after it PENDING or FAILED, as they were selected.
C36_LegacyScanSettlesFinishedFiles ==
    /\ [][SelectionRule]_vars
    /\ [](legacy_scan.pc = "idle" =>
            \A i \in 1..Len(legacy_scan.pending_files) :
                LET status ==
                        files[legacy_scan.pending_files[i]].processing_status
                IN  /\ i < legacy_scan.pos => status \in {COMPLETED, FAILED}
                    /\ i = legacy_scan.pos => status # COMPLETED
                    /\ i > legacy_scan.pos => status \in {PENDING, FAILED})

\* C36 witness: a run has ended in the inner handler at its second file,
\* which stays PROCESSING, after it settled the first as FAILED.
C36_Witness ==
    /\ legacy_scan.pc = "idle"
    /\ legacy_scan.pos = 2
    /\ Len(legacy_scan.pending_files) >= 2
    /\ files[legacy_scan.pending_files[1]].processing_status = FAILED
    /\ files[legacy_scan.pending_files[2]].processing_status = PROCESSING

TypeOK ==
    /\ \A d \in Docs : ledger[d].status \in IndexingStatus
    /\ \A e \in Executors :
          pc[e] \in {"sleep", "scan", "stopped", "claim", "index", "add",
                     "commit", "except"}
    /\ stop_event \in BOOLEAN
    /\ shutdown \in {"running", "joining", "exited", "idle"}
    /\ \A e \in Executors : interval[e] \in {0, ScanInterval, ErrorInterval}
    /\ chunker_pc \in {"idle", "call", "returned", "raised"}

====
